---- MODULE Spec2Model ----
(***************************************************************************)
(* A model of github.com/clfs/m: the NTLM hasher (package ntlm), the Pwned  *)
(* Passwords client (package pwnpass) and the HIBP client (package hibp).   *)
(*                                                                          *)
(* Strings are sequences of one-character strings, byte slices sequences of *)
(* numbers 0..255.  A Go map is a record [nil, kv]: nil tells the nil map   *)
(* from the empty one, kv is the function from keys to values.  A Go error  *)
(* is a record whose kind is "nil" for the nil error.                       *)
(***************************************************************************)
EXTENDS Integers, Sequences, FiniteSets, TLC

VARIABLES
    \* ---- one call on a client (packages pwnpass and hibp) ----
    pkg,       \* the package whose Client is called: "pwnpass" or "hibp"
    op,        \* the method called, "none" before the call
    pc,        \* "idle", "await" (blocked in c.h.Do) or "done" (returned)
    password,  \* IsPwnedPassword's argument, a byte sequence
    arg,       \* a range query's argument: prefix, hash type, padding
    sent,      \* the requests handed to the transport, in order
    inflight,  \* the requests handed to the transport and not yet answered
    recv,      \* the responses the transport returned, in order
    bags,      \* what each range query of the call returned: [bag, err]
    ret,       \* what the call returned: [val, bag, err]
    ctx,       \* the call's context: whether it is done, and when that came
    \* ---- one call of the response parsers ----
    body,      \* the reader given to newBag / parseSuffixFrequencies
    parsed,    \* <<>> before the call, then <<newBag's result, parseSuffixFrequencies' result>>
    \* ---- one NTLM hasher (hash.Hash) ----
    md4buf,    \* the bytes the underlying MD4 hash has absorbed
    written,   \* the bytes written to the hasher since New or the last Reset
    pieces,    \* the lengths of the Write calls since New or the last Reset
    lastWrite, \* what the last Write returned: [n, err]
    sumOut,    \* what Sum(nil) returned if it was the last call, else <<>>
    calls,     \* the methods called on the hasher since New, in order
    \* ---- calls running concurrently on one pwnpass Client ----
    conc,      \* by call: its method, position, arguments, requests, responses, result
    wire       \* the requests in flight at the Client's transport, each with its call

clientVars == <<pkg, op, pc, password, arg, sent, inflight, recv, bags, ret, ctx>>
parserVars == <<body, parsed>>
hasherVars == <<md4buf, written, pieces, lastWrite, sumOut, calls>>
concVars == <<conc, wire>>
vars == <<pkg, op, pc, password, arg, sent, inflight, recv, bags, ret, ctx,
          body, parsed, md4buf, written, pieces, lastWrite, sumOut, calls, conc, wire>>

(***************************************************************************)
(* Bounds.                                                                 *)
(***************************************************************************)
\* The longest body, in lines, given to the parsers on their own.
MaxLines == 3
\* The longest body, in lines, of a response to a client's request.
MaxRespLines == 2
\* The most bytes written to one hasher between two Resets.
MaxMsgLen == 3
\* The most Write calls on one hasher between two Resets.
MaxPieces == 3
\* The most calls made on one hasher.
MaxCalls == 4
\* The calls running concurrently on one Client.
NumCalls == 2

(***************************************************************************)
(* Characters and sequences.                                               *)
(***************************************************************************)
Digits == {"0", "1", "2", "3", "4", "5", "6", "7", "8", "9"}
HexChars == Digits \cup {"A", "B", "C", "D", "E", "F", "a", "b", "c", "d", "e", "f"}

\* Every sequence over S of length at most n.
SeqsUpTo(S, n) == UNION {[1..k -> S] : k \in 0..n}

\* s[i:] and s[:i] of Go, i counted from 0.
SliceFrom(s, i) == SubSeq(s, i + 1, Len(s))
SliceTo(s, i) == SubSeq(s, 1, i)

(***************************************************************************)
(* encoding/hex and strings.ToUpper.                                       *)
(***************************************************************************)
hextable == <<"0", "1", "2", "3", "4", "5", "6", "7",
              "8", "9", "a", "b", "c", "d", "e", "f">>

\* hex.EncodeToString: two lower-case digits per byte, high nibble first.
HexEncodeToString(src) ==
    [i \in 1..(2 * Len(src)) |->
        IF i % 2 = 1 THEN hextable[(src[(i + 1) \div 2] \div 16) + 1]
                     ELSE hextable[(src[i \div 2] % 16) + 1]]

ToUpperChar(c) ==
    CASE c = "a" -> "A" [] c = "b" -> "B" [] c = "c" -> "C"
      [] c = "d" -> "D" [] c = "e" -> "E" [] c = "f" -> "F"
      [] c = "g" -> "G" [] c = "x" -> "X" [] c = "z" -> "Z"
      [] OTHER -> c

ToUpper(s) == [i \in 1..Len(s) |-> ToUpperChar(s[i])]

(***************************************************************************)
(* Go values: errors and maps.                                             *)
(***************************************************************************)
NilErr == [kind |-> "nil"]

\* The nil map and a map with the entries of kv.
NilMap == [nil |-> TRUE, kv |-> <<>>]
MakeMap(kv) == [nil |-> FALSE, kv |-> kv]

\* m[k] = v
MapPut(kv, k, v) ==
    [x \in (DOMAIN kv) \cup {k} |-> IF x = k THEN v ELSE kv[x]]

\* _, ok := m[k]
MapHas(m, k) == k \in DOMAIN m.kv

(***************************************************************************)
(* The hash primitives the repository is built on.  crypto/sha1 and        *)
(* x/crypto/md4 are supplied building blocks: they are modelled by their   *)
(* values on the messages the model hashes (the MD4 values are the golden  *)
(* vectors of the NTLM test suite), and MD4 of any other message by an     *)
(* opaque digest that is different for different messages.                 *)
(***************************************************************************)
PwEmpty == <<>>
PwA == <<97>>
PwAB == <<97, 98>>
PwPassword == <<112, 97, 115, 115, 119, 111, 114, 100>>

\* sha1.Sum(data)
Sha1Sum(data) ==
    CASE data = PwEmpty ->
           <<218, 57, 163, 238, 94, 107, 75, 13, 50, 85,
             191, 239, 149, 96, 24, 144, 175, 216, 7, 9>>
      [] data = PwA ->
           <<134, 247, 228, 55, 250, 165, 167, 252, 225, 93,
             29, 220, 185, 234, 234, 234, 55, 118, 103, 184>>
      [] data = PwPassword ->
           <<91, 170, 97, 228, 201, 185, 63, 63, 6, 130,
             37, 11, 108, 248, 51, 27, 126, 230, 143, 216>>

\* The digest MD4 returns once it has absorbed msg.
Md4Sum(msg) ==
    CASE msg = <<>> ->
           <<49, 214, 207, 224, 209, 106, 233, 49,
             183, 60, 89, 215, 224, 192, 137, 192>>
      [] msg = <<97, 0>> ->
           <<24, 108, 176, 145, 129, 226, 194, 236,
             170, 199, 104, 196, 124, 114, 153, 4>>
      [] msg = <<97, 0, 98, 0>> ->
           <<121, 49, 47, 126, 232, 30, 89, 212,
             231, 106, 21, 2, 30, 116, 181, 151>>
      [] msg = <<112, 0, 97, 0, 115, 0, 115, 0, 119, 0, 111, 0, 114, 0, 100, 0>> ->
           <<136, 70, 247, 234, 238, 143, 177, 23,
             173, 6, 189, 216, 48, 183, 88, 108>>
      [] OTHER -> <<256>> \o msg

(***************************************************************************)
(* Package ntlm.                                                           *)
(***************************************************************************)
\* The buffer had Write put the zero byte first (big-endian code units).
RECURSIVE WriteBufBigEndian(_)
WriteBufBigEndian(p) ==
    IF p = <<>> THEN <<>>
    ELSE <<0, Head(p)>> \o WriteBufBigEndian(Tail(p))

\* The buffer ntlm.Write builds: each byte of p followed by a zero byte.
RECURSIVE WriteBuf(_)
WriteBuf(p) ==
    IF p = <<>> THEN <<>>
    ELSE <<Head(p), 0>> \o WriteBuf(Tail(p))

\* (n *ntlm).Write(p) on a hasher whose MD4 has absorbed h: the MD4's new
\* contents and what Write returns, which is what the MD4's Write returns
\* for the buffer: its length and no error.
NtlmWrite(h, p) ==
    LET buf == WriteBuf(p)
    IN [h |-> h \o buf, n |-> Len(buf), err |-> NilErr]

\* (n *ntlm).Sum(b)
NtlmSumAppend(h, b) == b \o Md4Sum(h)

\* ntlm.Sum(data): a new hasher, one Write, Sum into the result array.
NtlmSum(data) == NtlmSumAppend(NtlmWrite(<<>>, data).h, <<>>)

(***************************************************************************)
(* strings.Cut and strconv.Atoi.                                           *)
(***************************************************************************)
\* strings.Cut(s, sep) for a one-character sep: s around the first sep.
Cut(s, sep) ==
    IF \E i \in 1..Len(s) : s[i] = sep
    THEN LET i == CHOOSE k \in 1..Len(s) :
                      s[k] = sep /\ \A j \in 1..(k - 1) : s[j] # sep
         IN [before |-> SubSeq(s, 1, i - 1),
             after |-> SubSeq(s, i + 1, Len(s)),
             found |-> TRUE]
    ELSE [before |-> s, after |-> <<>>, found |-> FALSE]

DigitVal(c) ==
    CASE c = "0" -> 0 [] c = "1" -> 1 [] c = "2" -> 2 [] c = "3" -> 3
      [] c = "4" -> 4 [] c = "5" -> 5 [] c = "6" -> 6 [] c = "7" -> 7
      [] c = "8" -> 8 [] c = "9" -> 9

\* The loop of Atoi: n = n*10 + digit, from the left.
RECURSIVE AtoiLoop(_, _)
AtoiLoop(ds, n) ==
    IF ds = <<>> THEN n
    ELSE AtoiLoop(Tail(ds), n * 10 + DigitVal(Head(ds)))

\* strconv.Atoi(s): an optional sign, then one or more decimal digits.  The
\* model's inputs are short, so the value is always in the range of int.
Atoi(s) ==
    LET signed == s # <<>> /\ s[1] \in {"+", "-"}
        ds == IF signed THEN Tail(s) ELSE s
    IN IF ds = <<>> \/ \E i \in 1..Len(ds) : ds[i] \notin Digits
       THEN [n |-> 0, ok |-> FALSE]
       ELSE [n |-> IF s[1] = "-" THEN 0 - AtoiLoop(ds, 0) ELSE AtoiLoop(ds, 0),
             ok |-> TRUE]

(***************************************************************************)
(* The response parsers.  A reader r is [lines, err]: the lines            *)
(* bufio.Scanner yields from it, and the error, NilErr for none, with      *)
(* which the scan ends after the last of them.                             *)
(***************************************************************************)
PwnpassMalformed(line) == [kind |-> "malformed response", line |-> line]
HibpInvalidLine(line) == [kind |-> "invalid line", line |-> line]

\* newBag's loop had it kept the padding lines: a count of zero is stored.
RECURSIVE newBagLoopKeepsPadding(_, _, _)
newBagLoopKeepsPadding(r, i, m) ==
    IF i > Len(r.lines)
    THEN [bag |-> MakeMap(m), err |-> r.err]
    ELSE LET line == r.lines[i]
             c == Cut(line, ":")
             a == Atoi(c.after)
         IN IF ~c.found THEN [bag |-> NilMap, err |-> PwnpassMalformed(line)]
            ELSE IF ~a.ok THEN [bag |-> NilMap, err |-> PwnpassMalformed(line)]
            ELSE IF a.n < 0 THEN [bag |-> NilMap, err |-> PwnpassMalformed(line)]
            ELSE newBagLoopKeepsPadding(r, i + 1, MapPut(m, c.before, a.n))

\* parseSuffixFrequencies' loop without the check for a negative count.
RECURSIVE parseSuffixFrequenciesLoopNoSign(_, _, _)
parseSuffixFrequenciesLoopNoSign(r, i, m) ==
    IF i > Len(r.lines)
    THEN IF r.err # NilErr THEN [bag |-> NilMap, err |-> r.err]
         ELSE [bag |-> MakeMap(m), err |-> NilErr]
    ELSE LET line == r.lines[i]
             c == Cut(line, ":")
             a == Atoi(c.after)
         IN IF ~c.found THEN [bag |-> NilMap, err |-> HibpInvalidLine(line)]
            ELSE IF ~a.ok THEN [bag |-> NilMap, err |-> HibpInvalidLine(line)]
            ELSE IF a.n = 0 THEN parseSuffixFrequenciesLoopNoSign(r, i + 1, m)
            ELSE parseSuffixFrequenciesLoopNoSign(r, i + 1, MapPut(m, c.before, a.n))

\* The scan loop of newBag from line i on, m being the map built so far.
RECURSIVE newBagLoop(_, _, _)
newBagLoop(r, i, m) ==
    IF i > Len(r.lines)
    THEN [bag |-> MakeMap(m), err |-> r.err]
    ELSE LET line == r.lines[i]
             c == Cut(line, ":")
             a == Atoi(c.after)
         IN IF ~c.found THEN [bag |-> NilMap, err |-> PwnpassMalformed(line)]
            ELSE IF ~a.ok THEN [bag |-> NilMap, err |-> PwnpassMalformed(line)]
            ELSE IF a.n < 0 THEN [bag |-> NilMap, err |-> PwnpassMalformed(line)]
            ELSE IF a.n = 0 THEN newBagLoop(r, i + 1, m)
            ELSE newBagLoop(r, i + 1, MapPut(m, c.before, a.n))

\* pwnpass: newBag(r)
newBag(r) == newBagLoop(r, 1, <<>>)

\* The scan loop of parseSuffixFrequencies.
RECURSIVE parseSuffixFrequenciesLoop(_, _, _)
parseSuffixFrequenciesLoop(r, i, m) ==
    IF i > Len(r.lines)
    THEN IF r.err # NilErr THEN [bag |-> NilMap, err |-> r.err]
         ELSE [bag |-> MakeMap(m), err |-> NilErr]
    ELSE LET line == r.lines[i]
             c == Cut(line, ":")
             a == Atoi(c.after)
         IN IF ~c.found THEN [bag |-> NilMap, err |-> HibpInvalidLine(line)]
            ELSE IF ~a.ok THEN [bag |-> NilMap, err |-> HibpInvalidLine(line)]
            ELSE IF a.n < 0 THEN [bag |-> NilMap, err |-> HibpInvalidLine(line)]
            ELSE IF a.n = 0 THEN parseSuffixFrequenciesLoop(r, i + 1, m)
            ELSE parseSuffixFrequenciesLoop(r, i + 1, MapPut(m, c.before, a.n))

\* hibp: parseSuffixFrequencies(r)
parseSuffixFrequencies(r) == parseSuffixFrequenciesLoop(r, 1, <<>>)

(***************************************************************************)
(* The parsers on their own: a reader is chosen, then each parser is       *)
(* called on it once.                                                      *)
(***************************************************************************)
\* The lines the readers are made of: positive counts, padding lines, a
\* repeated suffix, and every way a line can be malformed.
ParserLines ==
    { <<"A", ":", "1">>, <<"A", ":", "2">>, <<"A", ":", "0">>,
      <<"B", ":", "3">>, <<"B", ":", "0">>, <<"B", ":", "1", "0">>,
      <<"A">>, <<>>, <<"A", ":">>, <<"A", ":", "x">>,
      <<"A", ":", "-", "1">>, <<"A", ":", "-", "0">>, <<"A", ":", "+", "2">>,
      <<"A", ":", "1", ":", "2">>, <<":", "4">> }

\* How reading a body can end: at its end, or with an error of the reader.
ErrUnexpectedEOF == [kind |-> "read", what |-> "unexpected EOF"]
ReadErrs == {NilErr, ErrUnexpectedEOF}

Readers ==
    {[lines |-> ls, err |-> e] : ls \in SeqsUpTo(ParserLines, MaxLines), e \in ReadErrs}

NoReader == [lines |-> <<>>, err |-> NilErr]
NotParsed == [newBag |-> <<>>, parseSuffixFrequencies |-> <<>>]

NoArg == [Prefix |-> <<>>, HashType |-> "HashTypeSHA1", AddPadding |-> FALSE]
NoRet == [val |-> FALSE, bag |-> NilMap, err |-> NilErr]

\* A context that is not done, and one that was cancelled or timed out:
\* while c.h.Do was blocked ("Do"), while the body was read ("body"), or
\* between the return of the first range query and the second ("between").
CtxLive == [done |-> FALSE, phase |-> "none"]
CtxDone(phase) == [done |-> TRUE, phase |-> phase]

ClientIdle ==
    /\ pkg = "pwnpass" /\ op = "none" /\ pc = "idle"
    /\ password = <<>> /\ arg = NoArg
    /\ sent = <<>> /\ inflight = {} /\ recv = <<>> /\ bags = <<>> /\ ret = NoRet
    /\ ctx = CtxLive

ParserIdle == body = NoReader /\ parsed = NotParsed

HasherNew ==
    /\ md4buf = <<>> /\ written = <<>> /\ pieces = <<>>
    /\ lastWrite = [n |-> 0, err |-> NilErr] /\ sumOut = <<>>
    /\ calls = <<>>

\* No call runs on the shared Client.
NoCall == [op |-> "none", pc |-> "idle", s |-> <<>>, sent |-> <<>>, recv |-> <<>>, ret |-> NoRet]
ConcIdle == conc = [c \in 1..NumCalls |-> NoCall] /\ wire = {}

InitParser ==
    /\ ClientIdle /\ HasherNew /\ ConcIdle
    /\ body \in Readers
    /\ parsed = NotParsed

CallNewBag ==
    /\ parsed.newBag = <<>>
    /\ parsed' = [parsed EXCEPT !.newBag = <<newBag(body)>>]
    /\ UNCHANGED <<body, clientVars, hasherVars, concVars>>

CallParseSuffixFrequencies ==
    /\ parsed.parseSuffixFrequencies = <<>>
    /\ parsed' = [parsed EXCEPT !.parseSuffixFrequencies = <<parseSuffixFrequencies(body)>>]
    /\ UNCHANGED <<body, clientVars, hasherVars, concVars>>

NextParser == CallNewBag \/ CallParseSuffixFrequencies

SpecParser == InitParser /\ [][NextParser]_vars

(***************************************************************************)
(* HTTP: requests, responses, and what the transport can answer.           *)
(***************************************************************************)
\* http.StatusOK
StatusOK == 200

\* A request: rawURL is base, path, prefix and query put together.
Request(base, prefix, query, header) ==
    [method |-> "GET", base |-> base, path |-> "/range/", prefix |-> prefix,
     query |-> query, header |-> header]

\* http.NewRequestWithContext refuses a URL that holds a control character.
NewRequestErr(prefix) ==
    IF \E i \in 1..Len(prefix) : prefix[i] = "\n"
    THEN [kind |-> "net/url: invalid control character in URL"]
    ELSE NilErr

\* What c.h.Do returns when no response arrives: the context of the
\* request was done, or the connection failed.
ErrCanceled == [kind |-> "transport", what |-> "context canceled"]
ErrConnRefused == [kind |-> "transport", what |-> "connection refused"]

\* What reading the body returns once the context of the request is done.
ErrBodyCanceled == [kind |-> "read", what |-> "context canceled"]

\* How reading the body of a response can end.
BodyErrs == ReadErrs \cup {ErrBodyCanceled}

\* The answer of c.h.Do to a request whose context is done.
CanceledAnswer == [err |-> ErrCanceled, StatusCode |-> 0, RetryAfter |-> <<>>, Body |-> NoReader]

\* The lines a service can put in a body answering a query made for pw: the
\* two suffixes of pw in upper case with a count, the SHA-1 suffix as a
\* padding line, both suffixes in lower case, and a line that is not
\* SUFFIX:COUNT.
RespLines(pw) ==
    LET s == SliceFrom(HexEncodeToString(Sha1Sum(pw)), 5)
        n == SliceFrom(HexEncodeToString(NtlmSum(pw)), 5)
    IN { ToUpper(s) \o <<":", "3">>, ToUpper(s) \o <<":", "0">>,
         ToUpper(n) \o <<":", "2">>,
         s \o <<":", "1">>, n \o <<":", "1">>,
         <<"z", "z">> }

\* The values of the Retry-After header, "" when the response has none.
RetryAfterValues ==
    { <<>>, <<"3", "0">>, <<"0">>, <<"-", "5">>, <<"a", "b", "c">> }

\* Every answer of the transport to a request made for pw while its
\* context is not done: no response at all, a 200 with a body, or another
\* status with or without Retry-After.
Responses(pw) ==
    {[err |-> ErrConnRefused, StatusCode |-> 0, RetryAfter |-> <<>>, Body |-> NoReader]}
    \cup
    {[err |-> NilErr, StatusCode |-> StatusOK, RetryAfter |-> <<>>,
      Body |-> [lines |-> ls, err |-> e]] :
        ls \in SeqsUpTo(RespLines(pw), MaxRespLines), e \in BodyErrs}
    \cup
    {[err |-> NilErr, StatusCode |-> c, RetryAfter |-> h,
      Body |-> [lines |-> <<ToUpper(SliceFrom(HexEncodeToString(Sha1Sum(pw)), 5)) \o <<":", "3">>,
                            ToUpper(SliceFrom(HexEncodeToString(NtlmSum(pw)), 5)) \o <<":", "2">> >>,
                err |-> NilErr]] :
        c \in {429, 503}, h \in RetryAfterValues}

\* The passwords IsPwnedPassword is called with.
ClientPasswords == {PwA, PwPassword}

\* The prefixes the range queries are called with: valid ones in upper,
\* lower and mixed case, and every way of being invalid.
TestPrefixes ==
    { <<"5", "B", "A", "A", "6">>, <<"8", "8", "4", "6", "f">>, <<"a", "B", "3", "d", "E">>,
      <<>>, <<"5", "B", "A", "A">>, <<"5", "B", "A", "A", "6", "1">>,
      <<"5", "B", "A", "A", "G">>, <<"5", "B", "A", "A", "6", "\n">> }

(***************************************************************************)
(* Package pwnpass.                                                        *)
(***************************************************************************)
defaultBaseURL == "https://api.pwnedpasswords.com"

ErrInvalidPrefix == [kind |-> "invalid prefix"]

\* The match had the expression not been anchored at its end: [0-9A-Fa-f]{5}
\* at the start of the prefix.
isValidPrefixUnanchored(prefix) ==
    Len(prefix) >= 5 /\ \A i \in 1..5 : prefix[i] \in HexChars

\* isValidPrefix.MatchString(prefix), the expression being ^[0-9A-Fa-f]{5}$
\* ($ of Go matches at the end of the text only).
isValidPrefix(prefix) ==
    Len(prefix) = 5 /\ \A i \in 1..5 : prefix[i] \in HexChars

\* Client.search up to c.h.Do: the request it hands to the transport, or
\* what it returns without one.
PwnpassSearchBegin(prefix, ntlm) ==
    IF ~isValidPrefix(prefix)
    THEN [sends |-> <<>>, res |-> <<[bag |-> NilMap, err |-> ErrInvalidPrefix]>>]
    ELSE IF NewRequestErr(prefix) # NilErr
    THEN [sends |-> <<>>, res |-> <<[bag |-> NilMap, err |-> NewRequestErr(prefix)]>>]
    ELSE [sends |-> <<Request(defaultBaseURL, prefix,
                              IF ntlm THEN "?mode=ntlm" ELSE "",
                              {<<"Add-Padding", "true">>})>>,
          res |-> <<>>]

\* Client.search from the return of c.h.Do on.
PwnpassSearchEnd(resp) ==
    IF resp.err # NilErr THEN [bag |-> NilMap, err |-> resp.err]
    ELSE IF resp.StatusCode # StatusOK
    THEN [bag |-> NilMap,
          err |-> [kind |-> "unexpected status code", code |-> resp.StatusCode]]
    ELSE newBag(resp.Body)

\* The hex digests IsPwnedPassword computes.
PwnpassSha1Hex(s) == ToUpper(HexEncodeToString(Sha1Sum(s)))
PwnpassNtlmHex(s) == ToUpper(HexEncodeToString(NtlmSum(s)))

\* sha1Prefix, sha1Suffix := sha1Hex[:5], sha1Hex[5:], and the same for NTLM.
PwnpassSha1Prefix(s) == SliceTo(PwnpassSha1Hex(s), 5)
PwnpassSha1Suffix(s) == SliceFrom(PwnpassSha1Hex(s), 5)
PwnpassNtlmPrefix(s) == SliceTo(PwnpassNtlmHex(s), 5)
PwnpassNtlmSuffix(s) == SliceFrom(PwnpassNtlmHex(s), 5)

\* IsPwnedPassword without its early return on a match of the SHA-1 suffix.
PwnpassAfterSHA1NoShortCircuit(s, r) ==
    IF r.err # NilErr THEN [returns |-> TRUE, val |-> FALSE, err |-> r.err]
    ELSE [returns |-> FALSE, val |-> FALSE, err |-> NilErr]

\* What IsPwnedPassword does with r, the return of SearchSHA1: it returns
\* (val, err), or goes on to the NTLM query.
PwnpassAfterSHA1(s, r) ==
    IF r.err # NilErr THEN [returns |-> TRUE, val |-> FALSE, err |-> r.err]
    ELSE IF MapHas(r.bag, PwnpassSha1Suffix(s))
    THEN [returns |-> TRUE, val |-> TRUE, err |-> NilErr]
    ELSE [returns |-> FALSE, val |-> FALSE, err |-> NilErr]

\* IsPwnedPassword looking the SHA-1 suffix up in the NTLM bag as well.
PwnpassAfterNTLMWrongSuffix(s, r) ==
    IF r.err # NilErr THEN [returns |-> TRUE, val |-> FALSE, err |-> r.err]
    ELSE IF MapHas(r.bag, PwnpassSha1Suffix(s))
    THEN [returns |-> TRUE, val |-> TRUE, err |-> NilErr]
    ELSE [returns |-> TRUE, val |-> FALSE, err |-> NilErr]

\* What IsPwnedPassword returns given r, the return of SearchNTLM.
PwnpassAfterNTLM(s, r) ==
    IF r.err # NilErr THEN [returns |-> TRUE, val |-> FALSE, err |-> r.err]
    ELSE IF MapHas(r.bag, PwnpassNtlmSuffix(s))
    THEN [returns |-> TRUE, val |-> TRUE, err |-> NilErr]
    ELSE [returns |-> TRUE, val |-> FALSE, err |-> NilErr]

(***************************************************************************)
(* Package hibp.                                                           *)
(***************************************************************************)
defaultPPBaseURL == "https://api.pwnedpasswords.com"

\* The user agent the client was made with (that of cmd/hibp).
userAgent == "github.com/clfs/m/hibp/cmd/hibp"

HashTypes == {"HashTypeSHA1", "HashTypeNTLM"}

\* newError(resp)
newError(resp) ==
    LET a == Atoi(resp.RetryAfter)
    IN [kind |-> "hibp.Error",
        StatusCode |-> resp.StatusCode,
        RetryAfter |-> IF a.ok THEN [set |-> TRUE, seconds |-> a.n]
                       ELSE [set |-> FALSE, seconds |-> 0]]

\* Client.HashSuffixes up to c.h.Do.
HibpHashSuffixesBegin(req) ==
    IF NewRequestErr(req.Prefix) # NilErr
    THEN [sends |-> <<>>, res |-> <<[bag |-> NilMap, err |-> NewRequestErr(req.Prefix)]>>]
    ELSE [sends |-> <<Request(defaultPPBaseURL, req.Prefix, "",
                              {<<"User-Agent", userAgent>>}
                                \cup (IF req.AddPadding THEN {<<"Add-Padding", "true">>} ELSE {}))>>,
          res |-> <<>>]

\* Client.HashSuffixes from the return of c.h.Do on.
HibpHashSuffixesEnd(resp) ==
    IF resp.err # NilErr THEN [bag |-> NilMap, err |-> resp.err]
    ELSE IF resp.StatusCode = StatusOK THEN parseSuffixFrequencies(resp.Body)
    ELSE [bag |-> NilMap, err |-> newError(resp)]

\* The hex digests IsPwnedPassword computes.
HibpSha1Hex(pw) == HexEncodeToString(Sha1Sum(pw))
HibpNtlmHex(pw) == HexEncodeToString(NtlmSum(pw))

\* for suffix := range suffixes { if suffix == want { return true, nil } }
HibpRangeFinds(suffixes, want) == \E suffix \in DOMAIN suffixes.kv : suffix = want

\* The prefix had IsPwnedPassword passed the whole digest on.
HibpSha1PrefixWholeHash(pw) == HibpSha1Hex(pw)

\* sha1Prefix, sha1Suffix := sha1Hex[:5], sha1Hex[5:], and the same for NTLM.
HibpSha1Prefix(pw) == SliceTo(HibpSha1Hex(pw), 5)
HibpSha1Suffix(pw) == SliceFrom(HibpSha1Hex(pw), 5)
HibpNtlmPrefix(pw) == SliceTo(HibpNtlmHex(pw), 5)
HibpNtlmSuffix(pw) == SliceFrom(HibpNtlmHex(pw), 5)

\* The requests IsPwnedPassword passes to HashSuffixes.
HibpSha1Request(pw) ==
    [Prefix |-> HibpSha1Prefix(pw), HashType |-> "HashTypeSHA1", AddPadding |-> TRUE]
HibpNtlmRequest(pw) ==
    [Prefix |-> HibpNtlmPrefix(pw), HashType |-> "HashTypeNTLM", AddPadding |-> TRUE]

\* IsPwnedPassword going on to the NTLM query when the first query failed.
HibpAfterSHA1IgnoresError(pw, r) ==
    IF r.err = NilErr /\ HibpRangeFinds(r.bag, HibpSha1Suffix(pw))
    THEN [returns |-> TRUE, val |-> TRUE, err |-> NilErr]
    ELSE [returns |-> FALSE, val |-> FALSE, err |-> NilErr]

\* What IsPwnedPassword does with r, the return of the first HashSuffixes.
HibpAfterSHA1(pw, r) ==
    IF r.err # NilErr THEN [returns |-> TRUE, val |-> FALSE, err |-> r.err]
    ELSE IF HibpRangeFinds(r.bag, HibpSha1Suffix(pw))
    THEN [returns |-> TRUE, val |-> TRUE, err |-> NilErr]
    ELSE [returns |-> FALSE, val |-> FALSE, err |-> NilErr]

\* What IsPwnedPassword returns given r, the return of the second one.
HibpAfterNTLM(pw, r) ==
    IF r.err # NilErr THEN [returns |-> TRUE, val |-> FALSE, err |-> r.err]
    ELSE IF HibpRangeFinds(r.bag, HibpNtlmSuffix(pw))
    THEN [returns |-> TRUE, val |-> TRUE, err |-> NilErr]
    ELSE [returns |-> TRUE, val |-> FALSE, err |-> NilErr]


(***************************************************************************)
(* One call on a client.  The call runs to c.h.Do and blocks there; the    *)
(* transport answers with any response or error, and the call runs on to   *)
(* its next c.h.Do or to its return.                                       *)
(***************************************************************************)
Init == ClientIdle /\ ParserIdle /\ HasherNew /\ ConcIdle

\* A range query begins: b is what its code up to c.h.Do came to.  The
\* call blocks on the request, or returns what the query returned when the
\* query is the call (a Search or HashSuffixes), (false, err) when the call
\* is IsPwnedPassword.
BeginQuery(b, answered) ==
    /\ sent' = sent \o b.sends
    /\ inflight' = (inflight \ answered) \cup {Len(sent) + i : i \in DOMAIN b.sends}
    /\ IF b.res = <<>>
       THEN pc' = "await" /\ ret' = ret
       ELSE /\ pc' = "done"
            /\ ret' = [val |-> FALSE,
                       bag |-> IF op' = "IsPwnedPassword" THEN NilMap ELSE b.res[1].bag,
                       err |-> b.res[1].err]

\* The call returns from IsPwnedPassword with d's verdict.
ReturnVerdict(d, answered) ==
    /\ pc' = "done"
    /\ ret' = [val |-> d.val, bag |-> NilMap, err |-> d.err]
    /\ sent' = sent
    /\ inflight' = inflight \ answered

\* The context after the body of resp was read: done if the reader stopped
\* because it was.
CtxAfterBody(resp) == IF resp.Body.err = ErrBodyCanceled THEN CtxDone("body") ELSE ctx

\* The caller's cancellation or timeout fires while the call is blocked in
\* c.h.Do.
CancelCtx ==
    /\ pc = "await" /\ ~ctx.done
    /\ ctx' = CtxDone("Do")
    /\ UNCHANGED <<pkg, op, pc, password, arg, sent, inflight, recv, bags, ret,
                   parserVars, hasherVars, concVars>>

\* ---- pwnpass ----
PwnpassSearchCall(name, prefix, ntlm) ==
    /\ pc = "idle"
    /\ pkg' = "pwnpass" /\ op' = name
    /\ arg' = [Prefix |-> prefix,
               HashType |-> IF ntlm THEN "HashTypeNTLM" ELSE "HashTypeSHA1",
               AddPadding |-> TRUE]
    /\ LET b == PwnpassSearchBegin(prefix, ntlm)
       IN BeginQuery(b, {}) /\ bags' = bags \o b.res
    /\ UNCHANGED <<password, recv, ctx, parserVars, hasherVars, concVars>>

\* c.SearchSHA1(ctx, prefix)
PwnpassSearchSHA1(prefix) == PwnpassSearchCall("SearchSHA1", prefix, FALSE)

\* c.SearchNTLM(ctx, prefix)
PwnpassSearchNTLM(prefix) == PwnpassSearchCall("SearchNTLM", prefix, TRUE)

\* A search that sends its request again when the status is not 200.
PwnpassSearchReturnRetries(resp) ==
    /\ pc = "await" /\ pkg = "pwnpass" /\ op \in {"SearchSHA1", "SearchNTLM"}
    /\ recv' = Append(recv, resp)
    /\ ctx' = CtxAfterBody(resp)
    /\ LET r == PwnpassSearchEnd(resp)
       IN IF resp.err = NilErr /\ resp.StatusCode # StatusOK
          THEN /\ sent' = Append(sent, sent[Len(sent)])
               /\ inflight' = {Len(sent) + 1}
               /\ UNCHANGED <<bags, ret, pc>>
          ELSE /\ bags' = Append(bags, r)
               /\ ret' = [val |-> FALSE, bag |-> r.bag, err |-> r.err]
               /\ pc' = "done"
               /\ inflight' = inflight \ {Len(sent)}
               /\ sent' = sent
    /\ UNCHANGED <<pkg, op, password, arg, parserVars, hasherVars, concVars>>

\* c.h.Do returns in a SearchSHA1 or SearchNTLM call, which returns.
PwnpassSearchReturn(resp) ==
    /\ pc = "await" /\ pkg = "pwnpass" /\ op \in {"SearchSHA1", "SearchNTLM"}
    /\ recv' = Append(recv, resp)
    /\ ctx' = CtxAfterBody(resp)
    /\ inflight' = inflight \ {Len(sent)}
    /\ LET r == PwnpassSearchEnd(resp)
       IN /\ bags' = Append(bags, r)
          /\ ret' = [val |-> FALSE, bag |-> r.bag, err |-> r.err]
    /\ pc' = "done"
    /\ UNCHANGED <<pkg, op, password, arg, sent, parserVars, hasherVars, concVars>>

\* c.IsPwnedPassword(ctx, s) up to the c.h.Do of its SearchSHA1.
PwnpassIsPwnedPassword(s) ==
    /\ pc = "idle"
    /\ pkg' = "pwnpass" /\ op' = "IsPwnedPassword"
    /\ password' = s
    /\ LET b == PwnpassSearchBegin(PwnpassSha1Prefix(s), FALSE)
       IN BeginQuery(b, {}) /\ bags' = bags \o b.res
    /\ UNCHANGED <<arg, recv, ctx, parserVars, hasherVars, concVars>>

\* c.h.Do returns in the SearchSHA1 of IsPwnedPassword, which returns or
\* runs on to the c.h.Do of its SearchNTLM.
PwnpassSHA1Return(resp) ==
    /\ pc = "await" /\ pkg = "pwnpass" /\ op = "IsPwnedPassword" /\ Len(recv) = 0
    /\ recv' = Append(recv, resp)
    /\ LET r == PwnpassSearchEnd(resp)
           d == PwnpassAfterSHA1(password, r)
           b == PwnpassSearchBegin(PwnpassNtlmPrefix(password), TRUE)
       IN IF d.returns
          THEN /\ ReturnVerdict(d, {Len(sent)}) /\ bags' = Append(bags, r)
               /\ ctx' = CtxAfterBody(resp)
          ELSE /\ BeginQuery(b, {Len(sent)}) /\ bags' = Append(bags, r) \o b.res
               /\ ctx' \in {ctx, CtxDone("between")}
    /\ UNCHANGED <<pkg, op, password, arg, parserVars, hasherVars, concVars>>

\* c.h.Do returns in the SearchNTLM of IsPwnedPassword, which returns.
PwnpassNTLMReturn(resp) ==
    /\ pc = "await" /\ pkg = "pwnpass" /\ op = "IsPwnedPassword" /\ Len(recv) = 1
    /\ recv' = Append(recv, resp)
    /\ ctx' = CtxAfterBody(resp)
    /\ LET r == PwnpassSearchEnd(resp)
       IN ReturnVerdict(PwnpassAfterNTLM(password, r), {Len(sent)}) /\ bags' = Append(bags, r)
    /\ UNCHANGED <<pkg, op, password, arg, parserVars, hasherVars, concVars>>

\* ---- hibp ----
\* c.HashSuffixes(ctx, req) up to c.h.Do.
HibpHashSuffixes(req) ==
    /\ pc = "idle"
    /\ pkg' = "hibp" /\ op' = "HashSuffixes"
    /\ arg' = req
    /\ LET b == HibpHashSuffixesBegin(req)
       IN BeginQuery(b, {}) /\ bags' = bags \o b.res
    /\ UNCHANGED <<password, recv, ctx, parserVars, hasherVars, concVars>>

\* c.h.Do returns in a HashSuffixes call, which returns.
HibpHashSuffixesReturn(resp) ==
    /\ pc = "await" /\ pkg = "hibp" /\ op = "HashSuffixes"
    /\ recv' = Append(recv, resp)
    /\ ctx' = CtxAfterBody(resp)
    /\ inflight' = inflight \ {Len(sent)}
    /\ LET r == HibpHashSuffixesEnd(resp)
       IN /\ bags' = Append(bags, r)
          /\ ret' = [val |-> FALSE, bag |-> r.bag, err |-> r.err]
    /\ pc' = "done"
    /\ UNCHANGED <<pkg, op, password, arg, sent, parserVars, hasherVars, concVars>>

\* c.IsPwnedPassword(ctx, password) up to the c.h.Do of its first HashSuffixes.
HibpIsPwnedPassword(pw) ==
    /\ pc = "idle"
    /\ pkg' = "hibp" /\ op' = "IsPwnedPassword"
    /\ password' = pw
    /\ LET b == HibpHashSuffixesBegin(HibpSha1Request(pw))
       IN BeginQuery(b, {}) /\ bags' = bags \o b.res
    /\ UNCHANGED <<arg, recv, ctx, parserVars, hasherVars, concVars>>

\* c.h.Do returns in the first HashSuffixes of IsPwnedPassword, which
\* returns or runs on to the c.h.Do of the second.
HibpSHA1Return(resp) ==
    /\ pc = "await" /\ pkg = "hibp" /\ op = "IsPwnedPassword" /\ Len(recv) = 0
    /\ recv' = Append(recv, resp)
    /\ LET r == HibpHashSuffixesEnd(resp)
           d == HibpAfterSHA1(password, r)
           b == HibpHashSuffixesBegin(HibpNtlmRequest(password))
       IN IF d.returns
          THEN /\ ReturnVerdict(d, {Len(sent)}) /\ bags' = Append(bags, r)
               /\ ctx' = CtxAfterBody(resp)
          ELSE /\ BeginQuery(b, {Len(sent)}) /\ bags' = Append(bags, r) \o b.res
               /\ ctx' \in {ctx, CtxDone("between")}
    /\ UNCHANGED <<pkg, op, password, arg, parserVars, hasherVars, concVars>>

\* c.h.Do returns in the second HashSuffixes of IsPwnedPassword, which returns.
HibpNTLMReturn(resp) ==
    /\ pc = "await" /\ pkg = "hibp" /\ op = "IsPwnedPassword" /\ Len(recv) = 1
    /\ recv' = Append(recv, resp)
    /\ ctx' = CtxAfterBody(resp)
    /\ LET r == HibpHashSuffixesEnd(resp)
       IN ReturnVerdict(HibpAfterNTLM(password, r), {Len(sent)}) /\ bags' = Append(bags, r)
    /\ UNCHANGED <<pkg, op, password, arg, parserVars, hasherVars, concVars>>

HashSuffixesRequests ==
    {[Prefix |-> x, HashType |-> t, AddPadding |-> a] :
        x \in TestPrefixes, t \in HashTypes, a \in BOOLEAN}

\* The answers of the transport, by the password of the call (the empty
\* one in a call that is a range query).
TransportAnswers == [pw \in ClientPasswords \cup {PwEmpty} |-> Responses(pw)]

\* What c.h.Do can return to the call: every request is made by
\* http.NewRequestWithContext(ctx, ...), and to a request whose context is
\* done the transport answers with the error of the context only.
Answers == IF ctx.done THEN {CanceledAnswer} ELSE TransportAnswers[password]

Next ==
    \/ \E prefix \in TestPrefixes : PwnpassSearchSHA1(prefix)
    \/ \E prefix \in TestPrefixes : PwnpassSearchNTLM(prefix)
    \/ pc = "await" /\ \E resp \in Answers : PwnpassSearchReturn(resp)
    \/ \E s \in ClientPasswords : PwnpassIsPwnedPassword(s)
    \/ pc = "await" /\ \E resp \in Answers : PwnpassSHA1Return(resp)
    \/ pc = "await" /\ \E resp \in Answers : PwnpassNTLMReturn(resp)
    \/ \E req \in HashSuffixesRequests : HibpHashSuffixes(req)
    \/ pc = "await" /\ \E resp \in Answers : HibpHashSuffixesReturn(resp)
    \/ \E pw \in ClientPasswords : HibpIsPwnedPassword(pw)
    \/ pc = "await" /\ \E resp \in Answers : HibpSHA1Return(resp)
    \/ pc = "await" /\ \E resp \in Answers : HibpNTLMReturn(resp)
    \/ CancelCtx

Spec == Init /\ [][Next]_vars


(***************************************************************************)
(* One NTLM hasher: New, then Write, Sum(nil) and Reset in any order.      *)
(***************************************************************************)
\* The bytes written: a letter of each golden vector, and the zero byte.
Bytes == {0, 97, 98}

InitHasher == ClientIdle /\ ParserIdle /\ HasherNew /\ ConcIdle

\* h.Write(p)
HasherWrite(p) ==
    /\ Len(calls) < MaxCalls
    /\ calls' = Append(calls, "Write")
    /\ Len(pieces) < MaxPieces
    /\ Len(written) + Len(p) <= MaxMsgLen
    /\ LET w == NtlmWrite(md4buf, p)
       IN /\ md4buf' = w.h
          /\ lastWrite' = [n |-> w.n, err |-> w.err]
    /\ written' = written \o p
    /\ pieces' = Append(pieces, Len(p))
    /\ sumOut' = <<>>
    /\ UNCHANGED <<clientVars, parserVars, concVars>>

\* A Sum that finalizes the MD4 in place: the padding stays in its state.
HasherSumInPlace ==
    /\ Len(calls) < MaxCalls
    /\ calls' = Append(calls, "Sum")
    /\ sumOut' = NtlmSumAppend(md4buf, <<>>)
    /\ md4buf' = Append(md4buf, 128)
    /\ UNCHANGED <<written, pieces, lastWrite, clientVars, parserVars, concVars>>

\* h.Sum(nil): the MD4 sums a copy of its state, which stays as it is.
HasherSum ==
    /\ Len(calls) < MaxCalls
    /\ calls' = Append(calls, "Sum")
    /\ sumOut' = NtlmSumAppend(md4buf, <<>>)
    /\ UNCHANGED <<md4buf, written, pieces, lastWrite, clientVars, parserVars, concVars>>

\* h.Reset()
HasherReset ==
    /\ Len(calls) < MaxCalls
    /\ calls' = Append(calls, "Reset")
    /\ md4buf' = <<>>
    /\ written' = <<>>
    /\ pieces' = <<>>
    /\ sumOut' = <<>>
    /\ UNCHANGED <<lastWrite, clientVars, parserVars, concVars>>

NextHasher ==
    \/ \E p \in SeqsUpTo(Bytes, MaxMsgLen) : HasherWrite(p)
    \/ HasherSum
    \/ HasherReset

SpecHasher == InitHasher /\ [][NextHasher]_vars


(***************************************************************************)
(* Calls running concurrently on one pwnpass Client.  A call only reads    *)
(* the Client's fields (h, baseURL) and keeps what it computes in its own  *)
(* local variables; the transport c.h is shared by the calls, and c.h.Do   *)
(* returns to the call that made the request.                              *)
(***************************************************************************)
\* The prefixes the concurrent range queries are called with.
ConcPrefixes == { <<"5", "B", "A", "A", "6">>, <<>> }

\* The answers of the shared transport: no response, or a 200 whose body
\* is empty, has the SHA-1 suffix of "a" or has the NTLM suffix of
\* "password".
ConcAnswers ==
    {[err |-> ErrConnRefused, StatusCode |-> 0, RetryAfter |-> <<>>, Body |-> NoReader]}
    \cup
    {[err |-> NilErr, StatusCode |-> StatusOK, RetryAfter |-> <<>>,
      Body |-> [lines |-> ls, err |-> NilErr]] :
        ls \in { <<>>,
                 <<PwnpassSha1Suffix(PwA) \o <<":", "3">> >>,
                 <<PwnpassNtlmSuffix(PwPassword) \o <<":", "2">> >> }}

\* The password had the calls kept it in one place, that of the first call.
LocalSShared(c) == conc[1].s

\* s, the parameter of call c of IsPwnedPassword.
LocalS(c) == conc[c].s

InitConc == ClientIdle /\ ParserIdle /\ HasherNew /\ ConcIdle

\* Call c, whose variables are cur, goes on with what a range query came
\* to up to c.h.Do: it blocks on the request, or returns.
ConcBegin(c, cur, b) ==
    /\ conc' = [conc EXCEPT ![c] =
                  IF b.res = <<>>
                  THEN [cur EXCEPT !.sent = @ \o b.sends, !.pc = "await"]
                  ELSE [cur EXCEPT !.pc = "done",
                                   !.ret = [val |-> FALSE,
                                            bag |-> IF cur.op = "IsPwnedPassword"
                                                    THEN NilMap ELSE b.res[1].bag,
                                            err |-> b.res[1].err]]]
    /\ wire' = {w \in wire : w.call # c}
                 \cup {[call |-> c, n |-> Len(cur.sent) + i, req |-> b.sends[i]] :
                          i \in DOMAIN b.sends}

\* Call c returns from IsPwnedPassword with d's verdict.
ConcReturn(c, cur, d) ==
    /\ conc' = [conc EXCEPT ![c] =
                  [cur EXCEPT !.pc = "done",
                              !.ret = [val |-> d.val, bag |-> NilMap, err |-> d.err]]]
    /\ wire' = {w \in wire : w.call # c}

\* What call c has once c.h.Do returned resp to it for request w.
ConcReceived(c, w, resp) ==
    [conc[c] EXCEPT !.recv = Append(@, [to |-> <<w.call, w.n>>, resp |-> resp])]

\* Call c is c.SearchSHA1(ctx, prefix) or c.SearchNTLM(ctx, prefix), up to c.h.Do.
ConcSearch(c, prefix, ntlm) ==
    /\ conc[c].pc = "idle"
    /\ ConcBegin(c, [conc[c] EXCEPT !.op = IF ntlm THEN "SearchNTLM" ELSE "SearchSHA1"],
                 PwnpassSearchBegin(prefix, ntlm))
    /\ UNCHANGED <<clientVars, parserVars, hasherVars>>

\* c.h.Do returns in call c, a SearchSHA1 or SearchNTLM, which returns.
ConcSearchReturn(c, resp) ==
    /\ conc[c].pc = "await" /\ conc[c].op \in {"SearchSHA1", "SearchNTLM"}
    /\ \E w \in wire :
          /\ w.call = c
          /\ LET r == PwnpassSearchEnd(resp)
             IN conc' = [conc EXCEPT ![c] =
                           [ConcReceived(c, w, resp) EXCEPT
                               !.pc = "done",
                               !.ret = [val |-> FALSE, bag |-> r.bag, err |-> r.err]]]
          /\ wire' = wire \ {w}
    /\ UNCHANGED <<clientVars, parserVars, hasherVars>>

\* Call c is c.IsPwnedPassword(ctx, s), up to the c.h.Do of its SearchSHA1.
ConcIsPwnedPassword(c, s) ==
    /\ conc[c].pc = "idle"
    /\ ConcBegin(c, [conc[c] EXCEPT !.op = "IsPwnedPassword", !.s = s],
                 PwnpassSearchBegin(PwnpassSha1Prefix(s), FALSE))
    /\ UNCHANGED <<clientVars, parserVars, hasherVars>>

\* c.h.Do returns in the SearchSHA1 of call c, which returns or runs on to
\* the c.h.Do of its SearchNTLM.
ConcSHA1Return(c, resp) ==
    /\ conc[c].pc = "await" /\ conc[c].op = "IsPwnedPassword" /\ Len(conc[c].recv) = 0
    /\ \E w \in wire :
          /\ w.call = c
          /\ LET r == PwnpassSearchEnd(resp)
                 d == PwnpassAfterSHA1(LocalS(c), r)
             IN IF d.returns
                THEN ConcReturn(c, ConcReceived(c, w, resp), d)
                ELSE ConcBegin(c, ConcReceived(c, w, resp),
                               PwnpassSearchBegin(PwnpassNtlmPrefix(LocalS(c)), TRUE))
    /\ UNCHANGED <<clientVars, parserVars, hasherVars>>

\* c.h.Do returns in the SearchNTLM of call c, which returns.
ConcNTLMReturn(c, resp) ==
    /\ conc[c].pc = "await" /\ conc[c].op = "IsPwnedPassword" /\ Len(conc[c].recv) = 1
    /\ \E w \in wire :
          /\ w.call = c
          /\ ConcReturn(c, ConcReceived(c, w, resp),
                        PwnpassAfterNTLM(LocalS(c), PwnpassSearchEnd(resp)))
    /\ UNCHANGED <<clientVars, parserVars, hasherVars>>

NextConc ==
    \E c \in 1..NumCalls :
        \/ \E prefix \in ConcPrefixes, ntlm \in BOOLEAN : ConcSearch(c, prefix, ntlm)
        \/ \E resp \in ConcAnswers : ConcSearchReturn(c, resp)
        \/ \E s \in ClientPasswords : ConcIsPwnedPassword(c, s)
        \/ \E resp \in ConcAnswers : ConcSHA1Return(c, resp)
        \/ \E resp \in ConcAnswers : ConcNTLMReturn(c, resp)

SpecConc == InitConc /\ [][NextConc]_vars


(***************************************************************************)
(* What the response format says of a line, stated on the text of the line *)
(* and not through the parsers' code.                                      *)
(***************************************************************************)
IsDigits(s) == s # <<>> /\ \A i \in 1..Len(s) : s[i] \in Digits

\* The number a string of digits denotes.
RECURSIVE DecimalValue(_)
DecimalValue(s) ==
    IF s = <<>> THEN 0
    ELSE 10 * DecimalValue(SubSeq(s, 1, Len(s) - 1)) + DigitVal(s[Len(s)])

\* SUFFIX:COUNT, COUNT a non-negative integer in decimal digits.
WellFormedLine(line) ==
    \E k \in 1..Len(line) :
        /\ line[k] = ":"
        /\ \A j \in 1..(k - 1) : line[j] # ":"
        /\ IsDigits(SubSeq(line, k + 1, Len(line)))

ColonAt(line) == CHOOSE k \in 1..Len(line) : line[k] = ":" /\ \A j \in 1..(k - 1) : line[j] # ":"
SuffixOf(line) == SubSeq(line, 1, ColonAt(line) - 1)
CountText(line) == SubSeq(line, ColonAt(line) + 1, Len(line))

IsInteger(s) == IsDigits(s) \/ (s # <<>> /\ s[1] \in {"+", "-"} /\ IsDigits(Tail(s)))

\* A line without a colon, or whose count is no integer, or a negative one.
MalformedLine(line) ==
    \/ \A k \in 1..Len(line) : line[k] # ":"
    \/ ~IsInteger(CountText(line))
    \/ CountText(line)[1] = "-" /\ DecimalValue(Tail(CountText(line))) > 0

\* The positions of the lines of ls that bear suffix s with a count above zero.
PositiveAt(ls, s) ==
    {i \in 1..Len(ls) : SuffixOf(ls[i]) = s /\ DecimalValue(CountText(ls[i])) > 0}

\* The mapping a well-formed body stands for: the suffixes of its lines with
\* a count above zero, each with the count of the last such line.
ExpectedMapping(ls) ==
    LET keys == {SuffixOf(ls[i]) : i \in {j \in 1..Len(ls) : DecimalValue(CountText(ls[j])) > 0}}
    IN [s \in keys |->
          LET last == CHOOSE i \in PositiveAt(ls, s) : \A j \in PositiveAt(ls, s) : j <= i
          IN DecimalValue(CountText(ls[last]))]

\* The results of the parser calls made so far.
ParserResults ==
    {parsed.newBag[i] : i \in DOMAIN parsed.newBag}
        \cup {parsed.parseSuffixFrequencies[i] : i \in DOMAIN parsed.parseSuffixFrequencies}

(***************************************************************************)
(* C5: for a body read to its end whose every line is SUFFIX:COUNT with    *)
(* COUNT a non-negative integer, newBag and parseSuffixFrequencies return  *)
(* no error and a non-nil mapping whose keys are exactly the suffixes of   *)
(* the lines with a count above zero, each mapped to the count of the last *)
(* such line; padding lines change nothing, and the empty body gives the   *)
(* empty mapping.                                                          *)
(***************************************************************************)
C5_ParserMapping ==
    (body.err = NilErr /\ \A i \in 1..Len(body.lines) : WellFormedLine(body.lines[i]))
        => \A r \in ParserResults :
              /\ r.err = NilErr
              /\ ~r.bag.nil
              /\ r.bag.kv = ExpectedMapping(body.lines)

\* A repeated suffix followed by a padding line bearing it, parsed by both.
C5_Witness ==
    /\ body = [lines |-> << <<"A", ":", "1">>, <<"A", ":", "2">>, <<"A", ":", "0">> >>,
               err |-> NilErr]
    /\ parsed.newBag # <<>> /\ parsed.parseSuffixFrequencies # <<>>
    /\ \A r \in ParserResults : r.bag.kv = [s \in {<<"A">>} |-> 2]

(***************************************************************************)
(* C6: when a body has a line without a colon, or whose count is not an    *)
(* integer or is negative, the parsers return the nil mapping and an error *)
(* that names the first such line, however many valid lines precede it.    *)
(***************************************************************************)
C6_MalformedLine ==
    \A k \in 1..Len(body.lines) :
        (MalformedLine(body.lines[k]) /\ \A j \in 1..(k - 1) : ~MalformedLine(body.lines[j]))
            => \A r \in ParserResults :
                  /\ r.bag = NilMap
                  /\ r.err.kind \in {"malformed response", "invalid line"}
                  /\ r.err.line = body.lines[k]

\* Two positive-count lines, then a negative count: both parsers have failed.
C6_Witness ==
    /\ body.lines = << <<"A", ":", "1">>, <<"B", ":", "3">>, <<"A", ":", "-", "1">> >>
    /\ parsed.newBag # <<>> /\ parsed.parseSuffixFrequencies # <<>>
    /\ \A r \in ParserResults : r.bag = NilMap /\ r.err.line = <<"A", ":", "-", "1">>

\* Each byte of s followed by one zero byte, by position.
Interleaved(s) ==
    [i \in 1..(2 * Len(s)) |-> IF i % 2 = 1 THEN s[(i + 1) \div 2] ELSE 0]

(***************************************************************************)
(* C8: however the bytes s written to a hasher are split into Write calls, *)
(* empty ones included, the MD4 has absorbed s[0],0,s[1],0,...,s[n-1],0,   *)
(* and the digest Sum returns is that of ntlm.Sum(s), which writes s in    *)
(* one call.                                                               *)
(***************************************************************************)
C8_ChunkingIndependent ==
    /\ md4buf = Interleaved(written)
    /\ sumOut # <<>> => sumOut = NtlmSum(written) /\ sumOut = Md4Sum(Interleaved(written))

\* "ab" written as "a", "", "b": the digest is the golden vector of "ab".
C8_Witness ==
    /\ written = PwAB
    /\ pieces = <<1, 0, 1>>
    /\ HexEncodeToString(sumOut) =
         <<"7", "9", "3", "1", "2", "f", "7", "e", "e", "8", "1", "e", "5", "9", "d", "4",
           "e", "7", "6", "a", "1", "5", "0", "2", "1", "e", "7", "4", "b", "5", "9", "7">>

(***************************************************************************)
(* The claims about the clients are stated on what the transport saw and   *)
(* answered (sent, recv) and on what the call returned (ret).              *)
(***************************************************************************)
\* The hex digests of a password, in upper case, their first five
\* characters and the rest.
UpperHexDigests ==
    [pw \in ClientPasswords \cup {PwEmpty} |->
        [sha1 |-> ToUpper(HexEncodeToString(Sha1Sum(pw))),
         ntlm |-> ToUpper(HexEncodeToString(NtlmSum(pw)))]]
Sha1HexOf(pw) == UpperHexDigests[pw].sha1
NtlmHexOf(pw) == UpperHexDigests[pw].ntlm
Sha1PrefixOf(pw) == SubSeq(Sha1HexOf(pw), 1, 5)
Sha1SuffixOf(pw) == SubSeq(Sha1HexOf(pw), 6, Len(Sha1HexOf(pw)))
NtlmPrefixOf(pw) == SubSeq(NtlmHexOf(pw), 1, 5)
NtlmSuffixOf(pw) == SubSeq(NtlmHexOf(pw), 6, Len(NtlmHexOf(pw)))

\* A response with which a range query succeeds: a 200 whose body is read
\* to its end and whose every line is SUFFIX:COUNT.
Succeeds(resp) ==
    /\ resp.err = NilErr
    /\ resp.StatusCode = 200
    /\ resp.Body.err = NilErr
    /\ \A i \in 1..Len(resp.Body.lines) : WellFormedLine(resp.Body.lines[i])

\* Whether such a response holds a line with suffix s and a count above zero.
HasPositiveLine(resp, s) == PositiveAt(resp.Body.lines, s) # {}

\* Whether e is the error of the failure that resp is: the transport's
\* error, the status, the first malformed line, or the reader's error.
ErrorOf(e, resp) ==
    IF resp.err # NilErr THEN e = resp.err
    ELSE IF resp.StatusCode # 200
    THEN \/ e.kind = "unexpected status code" /\ e.code = resp.StatusCode
         \/ e.kind = "hibp.Error" /\ e.StatusCode = resp.StatusCode
    ELSE IF \E i \in 1..Len(resp.Body.lines) : MalformedLine(resp.Body.lines[i])
    THEN LET k == CHOOSE i \in 1..Len(resp.Body.lines) :
                      /\ MalformedLine(resp.Body.lines[i])
                      /\ \A j \in 1..(i - 1) : ~MalformedLine(resp.Body.lines[j])
         IN e.kind \in {"malformed response", "invalid line"} /\ e.line = resp.Body.lines[k]
    ELSE e = resp.Body.err /\ e # NilErr

(***************************************************************************)
(* C1: every request IsPwnedPassword hands to the transport, in pwnpass    *)
(* and in hibp, is a GET of <base>/range/<p> where p is exactly the first  *)
(* five hex characters of the password's SHA-1 or NTLM digest, with at     *)
(* most the ntlm mode indicator, the padding header and the client's fixed *)
(* user agent: nothing else of the password or of its digests is in it.    *)
(***************************************************************************)
C1_OnlyPrefixLeavesClient ==
    op = "IsPwnedPassword" =>
        \A i \in DOMAIN sent :
            /\ sent[i].method = "GET"
            /\ sent[i].base = "https://api.pwnedpasswords.com"
            /\ sent[i].path = "/range/"
            /\ Len(sent[i].prefix) = 5
            /\ ToUpper(sent[i].prefix) \in {Sha1PrefixOf(password), NtlmPrefixOf(password)}
            /\ sent[i].query \in {"", "?mode=ntlm"}
            /\ sent[i].header \subseteq
                 {<<"Add-Padding", "true">>, <<"User-Agent", "github.com/clfs/m/hibp/cmd/hibp">>}
            /\ <<"Add-Padding", "true">> \in sent[i].header

\* hibp's IsPwnedPassword("password") has sent both of its requests.
C1_Witness ==
    /\ pkg = "hibp" /\ op = "IsPwnedPassword" /\ password = PwPassword
    /\ Len(sent) = 2
    /\ sent[1].prefix = <<"5", "b", "a", "a", "6">>
    /\ sent[2].prefix = <<"8", "8", "4", "6", "f">>

(***************************************************************************)
(* C2: when every range query of pwnpass's IsPwnedPassword succeeded, it   *)
(* returns true exactly when the first response has a positive-count line  *)
(* with the SHA-1 suffix or the second one with the NTLM suffix; and when  *)
(* the first response succeeds without such a line (empty, padding only,   *)
(* the very suffix with count 0) exactly one more request follows, the     *)
(* ntlm-mode one, and a match in its response gives true.                  *)
(***************************************************************************)
C2_VerdictIsTheLookup ==
    (pkg = "pwnpass" /\ op = "IsPwnedPassword") =>
        /\ (pc = "done" /\ \A i \in DOMAIN recv : Succeeds(recv[i])) =>
              /\ ret.err = NilErr
              /\ ret.val <=> \/ HasPositiveLine(recv[1], Sha1SuffixOf(password))
                             \/ Len(recv) = 2 /\ HasPositiveLine(recv[2], NtlmSuffixOf(password))
        /\ (Len(recv) >= 1 /\ Succeeds(recv[1])
                /\ ~HasPositiveLine(recv[1], Sha1SuffixOf(password))) =>
              /\ Len(sent) = 2
              /\ sent[2].query = "?mode=ntlm"
              /\ sent[2].prefix = NtlmPrefixOf(password)
              /\ (Len(recv) = 2 /\ Succeeds(recv[2])
                    /\ HasPositiveLine(recv[2], NtlmSuffixOf(password)))
                   => pc = "done" /\ ret.val /\ ret.err = NilErr

\* The first body is one padding line bearing the SHA-1 suffix, the second
\* has the NTLM suffix with a count: the verdict is true.
C2_Witness ==
    /\ pkg = "pwnpass" /\ op = "IsPwnedPassword" /\ pc = "done" /\ password = PwPassword
    /\ Len(recv) = 2
    /\ recv[1].Body = [lines |-> <<Sha1SuffixOf(PwPassword) \o <<":", "0">> >>, err |-> NilErr]
    /\ recv[2].Body = [lines |-> <<NtlmSuffixOf(PwPassword) \o <<":", "2">> >>, err |-> NilErr]
    /\ recv[1].StatusCode = 200 /\ recv[2].StatusCode = 200
    /\ ret.val /\ ret.err = NilErr

(***************************************************************************)
(* C3: when the first range query of pwnpass's IsPwnedPassword succeeds    *)
(* and its mapping has the SHA-1 suffix, the call returns (true, nil) at   *)
(* once: one request was sent, without the ntlm mode, and none follows.    *)
(***************************************************************************)
C3_ShortCircuit ==
    (pkg = "pwnpass" /\ op = "IsPwnedPassword" /\ Len(recv) >= 1
        /\ Succeeds(recv[1]) /\ HasPositiveLine(recv[1], Sha1SuffixOf(password))) =>
        /\ pc = "done"
        /\ ret.val /\ ret.err = NilErr
        /\ Len(sent) = 1 /\ Len(recv) = 1 /\ inflight = {}
        /\ sent[1].query = ""

\* "password", answered with a body holding its SHA-1 suffix after an NTLM line.
C3_Witness ==
    /\ pkg = "pwnpass" /\ op = "IsPwnedPassword" /\ pc = "done" /\ password = PwPassword
    /\ sent[1].prefix = <<"5", "B", "A", "A", "6">>
    /\ recv[1].Body.lines = <<NtlmSuffixOf(PwPassword) \o <<":", "2">>,
                              Sha1SuffixOf(PwPassword) \o <<":", "3">> >>
    /\ recv[1].Body.err = NilErr
    /\ ret.val /\ Len(sent) = 1

(***************************************************************************)
(* C4: in both clients, when the first range query of IsPwnedPassword      *)
(* fails (no response, a status other than 200, a malformed body, a body   *)
(* that cannot be read) the call returns (false, that error) and no second *)
(* request is sent; when the second one fails the call returns (false,     *)
(* that error); and no call returns a nil error after a failed query.      *)
(***************************************************************************)
C4_ErrorsPropagate ==
    op = "IsPwnedPassword" =>
        /\ (Len(recv) >= 1 /\ ~Succeeds(recv[1])) =>
              /\ pc = "done"
              /\ ~ret.val /\ ret.err # NilErr
              /\ ErrorOf(ret.err, recv[1])
              /\ ret.err = bags[1].err
              /\ Len(sent) = 1 /\ Len(recv) = 1
        /\ (Len(recv) = 2 /\ ~Succeeds(recv[2])) =>
              /\ pc = "done"
              /\ ~ret.val /\ ret.err # NilErr
              /\ ErrorOf(ret.err, recv[2])
              /\ ret.err = bags[2].err
        /\ (pc = "done" /\ ret.err = NilErr) => \A i \in DOMAIN recv : Succeeds(recv[i])

\* hibp: the first query found nothing, the second was answered 429.
C4_Witness ==
    /\ pkg = "hibp" /\ op = "IsPwnedPassword" /\ pc = "done"
    /\ Len(recv) = 2 /\ Succeeds(recv[1])
    /\ recv[2].StatusCode = 429
    /\ ~ret.val /\ ret.err.kind = "hibp.Error" /\ ret.err.StatusCode = 429

\* The prefixes of TestPrefixes that are five hex characters.
FiveHexPrefixes ==
    { <<"5", "B", "A", "A", "6">>, <<"8", "8", "4", "6", "f">>, <<"a", "B", "3", "d", "E">> }

(***************************************************************************)
(* C7: SearchSHA1 and SearchNTLM of pwnpass send a request exactly when    *)
(* the prefix is five hex characters of either case; for any other prefix  *)
(* (empty, too short, too long, a non-hex character, five hex characters   *)
(* and a newline) they return the nil mapping and ErrInvalidPrefix with no *)
(* request sent, and ErrInvalidPrefix is never returned once a response    *)
(* was received.                                                           *)
(***************************************************************************)
C7_PrefixValidation ==
    /\ (pkg = "pwnpass" /\ op \in {"SearchSHA1", "SearchNTLM"}) =>
          IF arg.Prefix \in FiveHexPrefixes
          THEN /\ Len(sent) = 1 /\ sent[1].prefix = arg.Prefix
               /\ ret.err # ErrInvalidPrefix
          ELSE /\ pc = "done"
               /\ ret.bag = NilMap /\ ret.err = ErrInvalidPrefix
               /\ sent = <<>> /\ recv = <<>> /\ inflight = {}
    /\ (pkg = "pwnpass" /\ ret.err = ErrInvalidPrefix) => sent = <<>> /\ recv = <<>>

\* Five hex characters and a newline: rejected with nothing sent.
C7_Witness ==
    /\ pkg = "pwnpass" /\ op = "SearchNTLM" /\ pc = "done"
    /\ arg.Prefix = <<"5", "B", "A", "A", "6", "\n">>
    /\ ret.err = ErrInvalidPrefix /\ ret.bag = NilMap
    /\ sent = <<>>

(***************************************************************************)
(* C9: a pwnpass range query with a valid prefix sends exactly one request *)
(* whatever the answer; IsPwnedPassword sends at most two, first the one   *)
(* for the SHA-1 prefix without the ntlm mode, then, only once the first   *)
(* was answered, the one for the NTLM prefix with the ntlm mode, and at    *)
(* most one request is in flight at any time.                              *)
(***************************************************************************)
C9_OneRequestPerQuery ==
    pkg = "pwnpass" =>
        /\ Cardinality(inflight) <= 1
        /\ Len(sent) <= Len(recv) + 1
        /\ op \in {"SearchSHA1", "SearchNTLM"} =>
              /\ Len(sent) <= 1
              /\ (pc = "done" /\ arg.Prefix \in FiveHexPrefixes) => Len(sent) = 1 /\ Len(recv) = 1
              /\ pc = "await" => Len(sent) = 1 /\ inflight = {1}
        /\ op = "IsPwnedPassword" =>
              /\ Len(sent) \in {1, 2}
              /\ sent[1].prefix = Sha1PrefixOf(password) /\ sent[1].query = ""
              /\ Len(sent) = 2 =>
                    /\ sent[2].prefix = NtlmPrefixOf(password) /\ sent[2].query = "?mode=ntlm"
                    /\ Len(recv) >= 1
                    /\ 1 \notin inflight
              /\ pc = "done" => Len(recv) = Len(sent) /\ inflight = {}

\* IsPwnedPassword sent both requests and the second was answered 429 with
\* a retry hint: the call has returned, and no third request was sent.
C9_Witness ==
    /\ pkg = "pwnpass" /\ op = "IsPwnedPassword" /\ pc = "done"
    /\ Len(sent) = 2 /\ Len(recv) = 2
    /\ recv[2].StatusCode = 429 /\ recv[2].RetryAfter = <<"3", "0">>

\* The header is present and a non-negative integer.
IsRetryHint(h) ==
    IsInteger(h) /\ ~(h[1] = "-" /\ DecimalValue(Tail(h)) > 0)

RetryHintSeconds(h) == IF h[1] \in {"+", "-"} THEN DecimalValue(Tail(h)) ELSE DecimalValue(h)

(***************************************************************************)
(* C10: for a response whose status is not a success, hibp's HashSuffixes  *)
(* returns the nil mapping and an Error with the status code of the        *)
(* response, whose RetryAfter is set exactly when the Retry-After header   *)
(* is a non-negative integer, and is then that many seconds; a missing,    *)
(* non-integer or negative header leaves it unset.                         *)
(***************************************************************************)
C10_ErrorClassification ==
    (pkg = "hibp" /\ op = "HashSuffixes" /\ pc = "done" /\ Len(recv) = 1
        /\ recv[1].err = NilErr /\ recv[1].StatusCode # 200) =>
        /\ ret.bag = NilMap
        /\ ret.err.kind = "hibp.Error"
        /\ ret.err.StatusCode = recv[1].StatusCode
        /\ ret.err.RetryAfter.set <=> IsRetryHint(recv[1].RetryAfter)
        /\ ret.err.RetryAfter.set => ret.err.RetryAfter.seconds = RetryHintSeconds(recv[1].RetryAfter)

\* The mode indicator of a request for NTLM suffixes.
HasModeIndicator(r) == r.query = "?mode=ntlm"

(***************************************************************************)
(* C11: hibp's IsPwnedPassword asks with the first five characters of the  *)
(* upper-case hex digest and looks the upper-case rest up, so that when a  *)
(* successful response has a positive-count line whose upper-case suffix   *)
(* is the rest of the SHA-1 digest (of the NTLM digest, on the second      *)
(* query) the call returns (true, nil).                                    *)
(***************************************************************************)
C11_HibpUpperCaseLookup ==
    (pkg = "hibp" /\ op = "IsPwnedPassword") =>
        /\ Len(sent) >= 1 => sent[1].prefix = Sha1PrefixOf(password)
        /\ Len(sent) = 2 => sent[2].prefix = NtlmPrefixOf(password)
        /\ (Len(recv) >= 1 /\ Succeeds(recv[1])
                /\ HasPositiveLine(recv[1], Sha1SuffixOf(password))) =>
              pc = "done" /\ ret.val /\ ret.err = NilErr
        /\ (Len(recv) = 2 /\ Succeeds(recv[2])
                /\ HasPositiveLine(recv[2], NtlmSuffixOf(password))) =>
              pc = "done" /\ ret.val /\ ret.err = NilErr

(***************************************************************************)
(* C12: a request of hibp's HashSuffixes bears the mode indicator exactly  *)
(* when the HashType asked for is HashTypeNTLM, and the second request of  *)
(* hibp's IsPwnedPassword bears it.                                        *)
(***************************************************************************)
C12_HibpModeIndicator ==
    pkg = "hibp" =>
        /\ (op = "HashSuffixes" /\ Len(sent) = 1) =>
              (HasModeIndicator(sent[1]) <=> arg.HashType = "HashTypeNTLM")
        /\ (op = "IsPwnedPassword" /\ Len(sent) >= 1) => ~HasModeIndicator(sent[1])
        /\ (op = "IsPwnedPassword" /\ Len(sent) = 2) => HasModeIndicator(sent[2])

(***************************************************************************)
(* C13: hibp's HashSuffixes called with a prefix that is not five hex      *)
(* characters returns the nil mapping and an invalid-prefix error, and no  *)
(* request leaves the client.                                              *)
(***************************************************************************)
C13_HibpPrefixValidation ==
    (pkg = "hibp" /\ op = "HashSuffixes" /\ arg.Prefix \notin FiveHexPrefixes) =>
        /\ sent = <<>> /\ recv = <<>> /\ inflight = {}
        /\ pc = "done"
        /\ ret.bag = NilMap /\ ret.err.kind = "invalid prefix"

(***************************************************************************)
(* C14: when the status of the response is not 200, a SearchSHA1 or        *)
(* SearchNTLM of pwnpass returns the nil mapping and an error of the       *)
(* remote-rejection kind, unlike ErrInvalidPrefix, a transport error and a *)
(* malformed-response error, that carries the status code and, when the    *)
(* Retry-After header gives a delay, that delay; the body is not parsed.   *)
(***************************************************************************)
C14_PwnpassRemoteRejection ==
    (pkg = "pwnpass" /\ op \in {"SearchSHA1", "SearchNTLM"} /\ pc = "done"
        /\ Len(recv) = 1 /\ recv[1].err = NilErr /\ recv[1].StatusCode # 200) =>
        /\ ret.bag = NilMap
        /\ ret.err.kind \notin {"nil", "invalid prefix", "transport", "malformed response", "read"}
        /\ ret.err.code = recv[1].StatusCode
        /\ IsRetryHint(recv[1].RetryAfter) =>
              /\ "RetryAfter" \in DOMAIN ret.err
              /\ ret.err.RetryAfter = RetryHintSeconds(recv[1].RetryAfter)

(***************************************************************************)
(* C15: Write(p) on the hasher returns len(p) and a nil error.             *)
(***************************************************************************)
C15_WriteAcceptedCount ==
    pieces # <<>> =>
        /\ lastWrite.n = pieces[Len(pieces)]
        /\ lastWrite.err = NilErr

(***************************************************************************)
(* C16: whatever Write, Sum and Reset calls were made on a hasher, the     *)
(* digest Sum returns is that of the bytes written since New or the last   *)
(* Reset; a Sum leaves the accumulated state as it was, and a Sum that     *)
(* follows a Sum returns the same digest.                                  *)
(***************************************************************************)
C16_SumDependsOnWrittenOnly ==
    /\ [](sumOut # <<>> => sumOut = Md4Sum(Interleaved(written)))
    /\ [][calls' = Append(calls, "Sum") =>
            /\ md4buf' = md4buf
            /\ sumOut # <<>> => sumOut' = sumOut]_vars

\* As in TestGolden: "a" written, Sum, "b" written, Sum: the digest is the
\* golden vector of "ab".
C16_Witness ==
    /\ calls = <<"Write", "Sum", "Write", "Sum">>
    /\ written = PwAB /\ pieces = <<1, 1>>
    /\ HexEncodeToString(sumOut) =
         <<"7", "9", "3", "1", "2", "f", "7", "e", "e", "8", "1", "e", "5", "9", "d", "4",
           "e", "7", "6", "a", "1", "5", "0", "2", "1", "e", "7", "4", "b", "5", "9", "7">>

(***************************************************************************)
(* C19: a range query of pwnpass never returns a mapping together with an  *)
(* error: whenever newBag or search returns an error, a failure of the     *)
(* body's reader after some counted lines included, the mapping is nil.    *)
(***************************************************************************)
C19_PwnpassNoMappingWithError ==
    pkg = "pwnpass" =>
        /\ \A i \in DOMAIN bags : bags[i].err # NilErr => bags[i].bag = NilMap
        /\ (op \in {"SearchSHA1", "SearchNTLM"} /\ pc = "done" /\ ret.err # NilErr) =>
              ret.bag = NilMap

\* The errors a done context gives: that of c.h.Do, that of the body's reader.
CancellationErrors == {ErrCanceled, ErrBodyCanceled}

(***************************************************************************)
(* C17: in pwnpass, once the context is done while a range request is in   *)
(* flight, that range query returns the nil mapping and the cancellation   *)
(* error, IsPwnedPassword returns (false, that error) and no request       *)
(* follows; and when the context is done between the first range query,    *)
(* which found nothing, and the second, the call ends with the             *)
(* cancellation error and never with a verdict.                            *)
(***************************************************************************)
C17_CancellationPropagates ==
    (pkg = "pwnpass" /\ ctx.done) =>
        /\ (ctx.phase \in {"Do", "body"} /\ pc = "await") => Len(sent) = Len(recv) + 1
        /\ pc = "done" =>
              /\ bags[Len(bags)].bag = NilMap
              /\ bags[Len(bags)].err \in CancellationErrors
              /\ ret.err = bags[Len(bags)].err
              /\ ~ret.val /\ ret.bag = NilMap
              /\ Len(sent) = Len(recv)
        /\ (Len(recv) >= 1 /\ recv[1].err = ErrCanceled) => pc = "done" /\ Len(sent) = 1
        /\ ctx.phase = "between" =>
              /\ Len(sent) = 2
              /\ pc = "done" => ret.err = ErrCanceled

\* What IsPwnedPassword(s) returns when run alone and answered with rs.
VerdictAlone(res, s, rs) ==
    IF ~Succeeds(rs[1]) THEN ~res.val /\ ErrorOf(res.err, rs[1])
    ELSE IF HasPositiveLine(rs[1], Sha1SuffixOf(s)) THEN res.val /\ res.err = NilErr
    ELSE IF ~Succeeds(rs[2]) THEN ~res.val /\ ErrorOf(res.err, rs[2])
    ELSE res.err = NilErr /\ (res.val <=> HasPositiveLine(rs[2], NtlmSuffixOf(s)))

\* Whether k is a call of IsPwnedPassword as it is when run alone: its
\* requests are those of its own password, the second one follows exactly
\* a first response without a match, and its result is that of its own
\* responses.
IsPwnedPasswordAlone(k) ==
    LET rs == [i \in DOMAIN k.recv |-> k.recv[i].resp]
    IN /\ Len(k.sent) \in {1, 2} /\ Len(k.recv) <= Len(k.sent)
       /\ k.sent[1].prefix = Sha1PrefixOf(k.s) /\ k.sent[1].query = ""
       /\ Len(k.sent) = 2 <=> /\ Len(rs) >= 1 /\ Succeeds(rs[1])
                              /\ ~HasPositiveLine(rs[1], Sha1SuffixOf(k.s))
       /\ Len(k.sent) = 2 =>
             k.sent[2].prefix = NtlmPrefixOf(k.s) /\ k.sent[2].query = "?mode=ntlm"
       /\ k.pc = "done" <=> Len(rs) = Len(k.sent)
       /\ k.pc = "done" => VerdictAlone(k.ret, k.s, rs) /\ k.ret.bag = NilMap

\* The same for a call of SearchSHA1 or SearchNTLM.
SearchAlone(k) ==
    /\ Len(k.sent) <= 1 /\ Len(k.recv) <= Len(k.sent)
    /\ k.sent # <<>> => k.sent[1].query = (IF k.op = "SearchNTLM" THEN "?mode=ntlm" ELSE "")
    /\ (k.pc = "done" /\ k.sent = <<>>) => k.ret.err = ErrInvalidPrefix /\ k.ret.bag = NilMap
    /\ (k.pc = "done" /\ k.sent # <<>>) =>
          /\ Len(k.recv) = 1
          /\ IF Succeeds(k.recv[1].resp)
             THEN /\ k.ret.err = NilErr
                  /\ k.ret.bag = MakeMap(ExpectedMapping(k.recv[1].resp.Body.lines))
             ELSE k.ret.bag = NilMap /\ ErrorOf(k.ret.err, k.recv[1].resp)

(***************************************************************************)
(* C18: in every interleaving of the calls running on one pwnpass Client,  *)
(* each call's requests and result are those of that call run alone with   *)
(* the responses it got: every response a call gets answers its own        *)
(* request, a call has at most its own last request in flight, and what    *)
(* it sends and returns is decided by its own arguments and responses.     *)
(***************************************************************************)
C18_CallsAreIndependent ==
    \A c \in 1..NumCalls :
        LET k == conc[c]
        IN /\ \A i \in DOMAIN k.recv : k.recv[i].to = <<c, i>>
           /\ {w \in wire : w.call = c} =
                 IF k.pc = "await"
                 THEN {[call |-> c, n |-> Len(k.sent), req |-> k.sent[Len(k.sent)]]}
                 ELSE {}
           /\ k.op = "IsPwnedPassword" => IsPwnedPasswordAlone(k)
           /\ k.op \in {"SearchSHA1", "SearchNTLM"} => SearchAlone(k)

\* Two calls of IsPwnedPassword are both blocked in their second query, each
\* asking with the NTLM prefix of its own password: the call that began
\* last made all of its steps while the other one was running.
C18_Witness ==
    /\ conc[1].op = "IsPwnedPassword" /\ conc[1].s = PwPassword
    /\ conc[2].op = "IsPwnedPassword" /\ conc[2].s = PwA
    /\ Cardinality(wire) = 2
    /\ Len(conc[1].sent) = 2 /\ conc[1].sent[2].prefix = <<"8", "8", "4", "6", "F">>
    /\ Len(conc[2].sent) = 2 /\ conc[2].sent[2].prefix = NtlmPrefixOf(PwA)
    /\ conc[1].recv[1].to = <<1, 1>> /\ conc[2].recv[1].to = <<2, 1>>

====
